---- MODULE Spec2Model ----
(***************************************************************************)
(* Model of the Vulkan bootstrap of w_gfx (src/w_gfx/src/backend/vulkan.rs)*)
(* and of the testbed host that drives it (src/testbed/src/main.rs).       *)
(*                                                                         *)
(* Native Vulkan objects are handles [kind, id]; every native create or    *)
(* destroy call is appended to `trace`.  Results of the fallible native    *)
(* calls (the driver, the loader, the windowing system) are inputs of the  *)
(* operation that makes the call.                                          *)
(***************************************************************************)
EXTENDS Integers, Sequences, FiniteSets, TLC

\* ------------------------------------------------------------------ bounds
MaxFamilies == 3        \* queue families of the device given to QueueFamilyIndices::get
MaxDevices == 2         \* physical devices enumerated for pick_physical_device
MaxDeviceFamilies == 1  \* queue families of each of those devices
MaxLayers == 2          \* instance layers enumerated for create_instance
MaxCalls == 4           \* operations a client makes on one Vulkan context
MaxEvents == 3          \* events the testbed's event loop delivers
MaxMajor == 2           \* major versions a loader reports
MaxMinor == 4           \* minor versions a loader reports

\* ------------------------------------------------- Option and Result values
None == [some |-> FALSE]
Some(x) == [some |-> TRUE, val |-> x]
Ok(x) == [ok |-> TRUE, val |-> x]
Err(e) == [ok |-> FALSE, err |-> e]
\* A panic (a failed unwrap or expect): the operation does not return.
Panic(e) == [ok |-> FALSE, err |-> e, panic |-> TRUE]
IsPanic(r) == ~r.ok /\ "panic" \in DOMAIN r
IsErr(r) == ~r.ok /\ "panic" \notin DOMAIN r

\* Result::unwrap_or
unwrap_or(r, default) == IF r.ok THEN r.val ELSE default

\* Option::unwrap_or
opt_unwrap_or(o, default) == IF o.some THEN o.val ELSE default

\* ---------------------------------------------------------- error messages
\* backend::Error carries a message; these are the messages vulkan.rs builds.
MSG_NO_SURFACE == "Can't create device without a surface"
MSG_VALIDATION_UNSUPPORTED == "Validation layers requested but not supported."
MSG_NO_SUITABLE_DEVICE == "No suitable physical device"
MSG_MISSING_QUEUE_FAMILIES == "Missing required queue families"
\* impl From<vk::Result> for Error: the message is the native code's text.
VkError(code) == code

\* ------------------------------------------------------ physical devices
\* vk::QueueFlags of a family: a family with graphics also has compute.
QueueFlagSets == {{"COMPUTE"}, {"GRAPHICS", "COMPUTE"}}
\* What get_physical_device_surface_support returns for one family in one call.
SupportResults == {Ok(TRUE), Ok(FALSE), Err("ERROR_SURFACE_LOST_KHR")}

SeqsUpTo(S, n) == UNION {[1..k -> S] : k \in 0..n}

\* A physical device as one resolution sees it: the queue-family properties and
\* the answer the surface-support query gives for each family index.
DevicesUpTo(n) ==
    UNION {{[properties |-> p, support |-> s] :
                p \in [1..k -> QueueFlagSets], s \in [1..k -> SupportResults]} :
           k \in 0..n}

\* ------------------------------------------------ QueueFamilyIndices::get
\* Iterator::position: 0-based index of the first element satisfying P.
RECURSIVE position_from(_, _, _)
position_from(flags, need, i) ==
    IF i > Len(flags) THEN None
    ELSE IF need \subseteq flags[i] THEN Some(i - 1)
    ELSE position_from(flags, need, i + 1)

\* Variant: the loop without its break, which keeps the last supporting family.
RECURSIVE present_from_no_break(_, _)
present_from_no_break(dev, i) ==
    IF i > Len(dev.properties) THEN None
    ELSE LET later == present_from_no_break(dev, i + 1)
         IN  IF later.some THEN later
             ELSE IF unwrap_or(dev.support[i], FALSE) THEN Some(i - 1)
             ELSE None

\* The `for (index, _) in properties.iter().enumerate()` loop with its break.
RECURSIVE present_from(_, _)
present_from(dev, i) ==
    IF i > Len(dev.properties) THEN None
    ELSE IF unwrap_or(dev.support[i], FALSE) THEN Some(i - 1)
    ELSE present_from(dev, i + 1)

QueueFamilyIndices_get(dev) ==
    LET graphics == position_from(dev.properties, {"GRAPHICS"}, 1)
        present == present_from(dev, 1)
    IN  IF graphics.some /\ present.some
        THEN Ok([graphics |-> graphics.val, present |-> present.val])
        ELSE Err(MSG_MISSING_QUEUE_FAMILIES)

\* ------------------------------------------------- check_physical_device
check_physical_device(dev) ==
    LET r == QueueFamilyIndices_get(dev)
    IN  IF r.ok THEN Ok("unit") ELSE Err(r.err)

\* ------------------------------------------------- pick_physical_device
\* Variant: a failed suitability check is propagated (`?`) instead of skipped.
RECURSIVE pick_loop_propagates(_, _, _)
pick_loop_propagates(devs, i, log) ==
    IF i > Len(devs)
    THEN [ret |-> Err(MSG_NO_SUITABLE_DEVICE), log |-> log]
    ELSE LET c == QueueFamilyIndices_get(devs[i])
         IN  IF ~c.ok
             THEN [ret |-> Err(c.err),
                   log |-> Append(log, [level |-> "warn", device |-> i - 1])]
             ELSE [ret |-> Ok(i - 1),
                   log |-> Append(log, [level |-> "info", device |-> i - 1])]

\* The loop over the enumerated devices; a physical device's handle is its
\* 0-based enumeration position.  `log` collects the warn!/info! records, one
\* per device whose suitability was checked.
RECURSIVE pick_loop(_, _, _)
pick_loop(devs, i, log) ==
    IF i > Len(devs)
    THEN [ret |-> Err(MSG_NO_SUITABLE_DEVICE), log |-> log]
    ELSE LET c == check_physical_device(devs[i])
         IN  IF ~c.ok
             THEN pick_loop(devs, i + 1,
                            Append(log, [level |-> "warn", device |-> i - 1]))
             ELSE [ret |-> Ok(i - 1),
                   log |-> Append(log, [level |-> "info", device |-> i - 1])]

\* Variant: an empty enumeration is rejected up front with an error of its own.
pick_physical_device_empty_check(enumerated) ==
    IF ~enumerated.ok
    THEN [ret |-> Err(VkError(enumerated.err)), log |-> <<>>]
    ELSE IF enumerated.val = <<>>
    THEN [ret |-> Err("No physical devices"), log |-> <<>>]
    ELSE pick_loop(enumerated.val, 1, <<>>)

\* enumerated: the result of instance.enumerate_physical_devices().
pick_physical_device(enumerated) ==
    IF ~enumerated.ok
    THEN [ret |-> Err(VkError(enumerated.err)), log |-> <<>>]
    ELSE pick_loop(enumerated.val, 1, <<>>)

\* ---------------------------------------------------------- API versions
\* vk::make_api_version: (variant << 29) | (major << 22) | (minor << 12) | patch.
\* The fields used here fit their bit widths (3, 7, 10, 12), so the shifted
\* fields do not overlap and the u32 does not wrap.
make_api_version(variant, major, minor, patch) ==
    variant * 2^29 + (major % 2^7) * 2^22 + (minor % 2^10) * 2^12 + (patch % 2^12)

PORTABILITY_MACOS_VERSION == make_api_version(0, 1, 3, 216)
API_VERSION_1_0 == make_api_version(0, 1, 0, 0)

\* What entry.try_enumerate_instance_version() can answer: a native error, no
\* vkEnumerateInstanceVersion entry point (a 1.0 loader), or a version.
InstanceVersionResults ==
    {Err("ERROR_OUT_OF_HOST_MEMORY"), Ok(None),
     Ok(Some(make_api_version(0, 1, 3, 215))),
     Ok(Some(make_api_version(0, 1, 3, 216)))}

\* Line 190 of create_instance:
\* cfg!(target_os = "macos") && instance_version >= PORTABILITY_MACOS_VERSION
portability(macos, instance_version) ==
    macos /\ instance_version >= PORTABILITY_MACOS_VERSION

\* ------------------------------------------------------------ native handles
Handle(kind, id) == [kind |-> kind, id |-> id]
Created(h) == [op |-> "create", handle |-> h]
Destroyed(h) == [op |-> "destroy", handle |-> h]

\* ------------------------------------------------------------ create_instance
VALIDATION_LAYER_NAME == "VK_LAYER_KHRONOS_validation"

\* One enumerated vk::LayerProperties, as layer_name_as_c_str() reads it.
LayerEntries ==
    {Ok(VALIDATION_LAYER_NAME), Ok("VK_LAYER_LUNARG_api_dump"),
     Err("FromBytesUntilNulError")}

\* The fallible calls create_instance makes, each with its possible answers.
InstanceEnvs ==
    [version : InstanceVersionResults,
     required_extensions : {Err("ERROR_EXTENSION_NOT_PRESENT"),
                            Ok(<<"VK_KHR_surface", "VK_KHR_xcb_surface">>)},
     layers : {Err("ERROR_OUT_OF_HOST_MEMORY")}
                \cup {Ok(l) : l \in SeqsUpTo(LayerEntries, MaxLayers)},
     create : {Err("ERROR_INCOMPATIBLE_DRIVER"), Ok("instance")},
     messenger : {Err("ERROR_OUT_OF_HOST_MEMORY"), Ok("messenger")}]

\* The extension list and the flags of lines 184-199.
instance_extensions(validation, macos, instance_version, required) ==
    LET e1 == IF validation THEN Append(required, "VK_EXT_debug_utils") ELSE required
    IN  IF portability(macos, instance_version)
        THEN e1 \o <<"VK_KHR_get_physical_device_properties2",
                     "VK_KHR_portability_enumeration">>
        ELSE e1

instance_flags(macos, instance_version) ==
    IF portability(macos, instance_version) THEN {"ENUMERATE_PORTABILITY_KHR"} ELSE {}

\* Variant: only an empty layer list is rejected.
validation_supported_nonempty(validation, available_layers) ==
    ~(validation /\ available_layers = {})

\* Line 207: the requested validation layer must be among the available ones.
validation_supported(validation, available_layers) ==
    ~(validation /\ VALIDATION_LAYER_NAME \notin available_layers)

\* create_instance as a function of the build flags, the answers of its
\* fallible calls and the next free handle id.  `created` lists the native
\* objects the call left created, `reached` the last stage it ran.
create_instance(validation, macos, env, id) ==
    LET none == [created |-> <<>>, instance_info |-> None, available_layers |-> None]
    IN
    IF ~env.version.ok
    THEN [ret |-> Err(VkError(env.version.err)), reached |-> "version"] @@ none
    ELSE IF ~env.required_extensions.ok
    THEN [ret |-> Err(VkError(env.required_extensions.err)),
          reached |-> "extensions"] @@ none
    ELSE IF ~env.layers.ok
    THEN [ret |-> Err(VkError(env.layers.err)), reached |-> "layers"] @@ none
    ELSE IF \E i \in 1..Len(env.layers.val) : ~env.layers.val[i].ok
    THEN [ret |-> Panic("Invalid vulkan layer name."), reached |-> "layers"] @@ none
    ELSE
    LET instance_version == opt_unwrap_or(env.version.val, API_VERSION_1_0)
        available_layers == {env.layers.val[i].val : i \in 1..Len(env.layers.val)}
        layers == IF validation THEN <<VALIDATION_LAYER_NAME>> ELSE <<>>
        instance_info ==
            [enabled_extension_names |->
                 instance_extensions(validation, macos, instance_version,
                                     env.required_extensions.val),
             flags |-> instance_flags(macos, instance_version),
             enabled_layer_names |-> layers,
             debug_info_chained |-> validation]
        instance == Handle("instance", id)
        messenger == Handle("debug_utils_messenger", id + 1)
    IN
    IF ~validation_supported(validation, available_layers)
    THEN [ret |-> Err(MSG_VALIDATION_UNSUPPORTED), reached |-> "negotiation",
          created |-> <<>>, instance_info |-> None,
          available_layers |-> Some(available_layers)]
    ELSE IF ~env.create.ok
    THEN [ret |-> Err(VkError(env.create.err)), reached |-> "create_instance",
          created |-> <<>>, instance_info |-> Some(instance_info),
          available_layers |-> Some(available_layers)]
    ELSE IF validation
    THEN IF ~env.messenger.ok
         THEN [ret |-> Err(VkError(env.messenger.err)),
               reached |-> "create_debug_utils_messenger",
               created |-> <<instance>>, instance_info |-> Some(instance_info),
               available_layers |-> Some(available_layers)]
         ELSE [ret |-> Ok([instance |-> instance,
                           debug_utils_messenger |-> Some(messenger)]),
               reached |-> "return",
               created |-> <<instance, messenger>>,
               instance_info |-> Some(instance_info),
               available_layers |-> Some(available_layers)]
    ELSE [ret |-> Ok([instance |-> instance, debug_utils_messenger |-> None]),
          reached |-> "return",
          created |-> <<instance>>, instance_info |-> Some(instance_info),
          available_layers |-> Some(available_layers)]

\* ---------------------------------------------------------------- Vulkan::new
\* Variant: the struct literal does not keep the messenger create_instance made.
new_without_messenger(validation, macos, env, id) ==
    LET ci == create_instance(validation, macos, env, id)
    IN  [ret |-> IF ci.ret.ok
                 THEN Ok([instance |-> ci.ret.val.instance,
                          debug_utils_messenger |-> None,
                          surface |-> None,
                          device |-> None,
                          physical_device |-> None,
                          graphics_queue |-> None,
                          present_queue |-> None])
                 ELSE ci.ret,
         created |-> ci.created]

\* The struct literal of lines 45-54.
new(validation, macos, env, id) ==
    LET ci == create_instance(validation, macos, env, id)
    IN  [ret |-> IF ci.ret.ok
                 THEN Ok([instance |-> ci.ret.val.instance,
                          debug_utils_messenger |-> ci.ret.val.debug_utils_messenger,
                          surface |-> None,
                          device |-> None,
                          physical_device |-> None,
                          graphics_queue |-> None,
                          present_queue |-> None])
                 ELSE ci.ret,
         created |-> ci.created]

\* ------------------------------------------------------------ Vulkan::destroy
\* Variant: the surface is destroyed before the device.
destroy_surface_before_device(self) ==
    (IF self.debug_utils_messenger.some
     THEN <<self.debug_utils_messenger.val>> ELSE <<>>)
    \o (IF self.surface.some THEN <<self.surface.val>> ELSE <<>>)
    \o (IF self.device.some THEN <<self.device.val>> ELSE <<>>)
    \o <<self.instance>>

\* Variant: the messenger is destroyed in its place in the reverse creation
\* order, after the surface.
destroy_messenger_after_surface(self) ==
    (IF self.device.some THEN <<self.device.val>> ELSE <<>>)
    \o (IF self.surface.some THEN <<self.surface.val>> ELSE <<>>)
    \o (IF self.debug_utils_messenger.some
        THEN <<self.debug_utils_messenger.val>> ELSE <<>>)
    \o <<self.instance>>

\* The handles destroy() passes to the native destroy calls, in call order.
destroy(self) ==
    (IF self.debug_utils_messenger.some
     THEN <<self.debug_utils_messenger.val>> ELSE <<>>)
    \o (IF self.device.some THEN <<self.device.val>> ELSE <<>>)
    \o (IF self.surface.some THEN <<self.surface.val>> ELSE <<>>)
    \o <<self.instance>>

\* ----------------------------------------------------- Vulkan::create_surface
\* created: the answer of ash_window::create_surface.
create_surface(self, created, id) ==
    IF ~created.ok
    THEN [ret |-> Err(VkError(created.err)), self |-> self, created |-> <<>>]
    ELSE [ret |-> Ok("unit"),
          self |-> [self EXCEPT !.surface = Some(Handle("surface", id))],
          created |-> <<Handle("surface", id)>>]

\* ------------------------------------------------------ Vulkan::create_device
\* Every order in which a HashSet's iterator can yield the elements of S.
iter_orders(S) ==
    {o \in [1..Cardinality(S) -> S] :
        \A i, j \in 1..Cardinality(S) : i # j => o[i] # o[j]}

\* Variant: a Vec instead of the HashSet, one descriptor per role.
queue_create_infos_no_dedup(indices) ==
    {[i \in 1..2 |->
         [queue_family_index |-> <<indices.graphics, indices.present>>[i],
          queue_count |-> 1,
          queue_priorities |-> <<"1.0">>]]}

\* Lines 115-128: the queue-creation descriptors, one per unique index, in
\* any iteration order of the HashSet.
queue_create_infos(indices) ==
    LET unique_indices == {indices.graphics, indices.present}
        queue_priorities == <<"1.0">>
    IN  {[i \in 1..Len(o) |->
             [queue_family_index |-> o[i],
              queue_count |-> Len(queue_priorities),
              queue_priorities |-> queue_priorities]] :
         o \in iter_orders(unique_indices)}

\* Variant: the version test of this site is strict.
device_extensions_strict(macos, instance_version) ==
    IF macos /\ instance_version > PORTABILITY_MACOS_VERSION
    THEN <<"VK_KHR_portability_subset">> ELSE <<>>

\* Lines 130-135, with the condition this site spells out itself (line 133).
device_extensions(macos, instance_version) ==
    IF macos /\ instance_version >= PORTABILITY_MACOS_VERSION
    THEN <<"VK_KHR_portability_subset">> ELSE <<>>

\* Variant: the selected physical device is not kept.
store_device_forgets_physical_device(self, device, physical_device, indices) ==
    [self EXCEPT
        !.graphics_queue =
            Some([device |-> device, family |-> indices.graphics, index |-> 0]),
        !.present_queue =
            Some([device |-> device, family |-> indices.present, index |-> 0]),
        !.device = Some(device)]

\* Lines 153-159: the queues of the new device and the assignments to self.
store_device(self, device, physical_device, indices) ==
    [self EXCEPT
        !.graphics_queue =
            Some([device |-> device, family |-> indices.graphics, index |-> 0]),
        !.present_queue =
            Some([device |-> device, family |-> indices.present, index |-> 0]),
        !.device = Some(device),
        !.physical_device = Some(physical_device)]

\* Variant: self.physical_device is assigned as soon as a device is selected,
\* before the native device creation can fail.
create_device_stores_early(self, macos, env, id) ==
    LET fail(r) == {[ret |-> r, self |-> self, created |-> <<>>,
                     indices |-> None, create_info |-> None]}
    IN
    IF ~self.surface.some THEN fail(Err(MSG_NO_SURFACE))
    ELSE IF ~env.version.ok THEN fail(Err(VkError(env.version.err)))
    ELSE
    LET instance_version == opt_unwrap_or(env.version.val, API_VERSION_1_0)
        picked == pick_physical_device(env.enumerated).ret
    IN
    IF ~picked.ok THEN fail(picked)
    ELSE
    LET physical_device == picked.val
        resolved == QueueFamilyIndices_get(
                        [properties |-> env.enumerated.val[physical_device + 1].properties,
                         support |-> env.second])
    IN
    IF ~resolved.ok THEN fail(Panic(resolved.err))
    ELSE
    LET indices == resolved.val
        device == Handle("device", id)
    IN
    {LET create_info == [queue_create_infos |-> queue_infos,
                         enabled_extension_names |->
                             device_extensions(macos, instance_version)]
     IN  IF ~env.create.ok
         THEN [ret |-> Err(VkError(env.create.err)),
               self |-> [self EXCEPT !.physical_device = Some(physical_device)],
               created |-> <<>>, indices |-> Some(indices),
               create_info |-> Some(create_info)]
         ELSE [ret |-> Ok("unit"),
               self |-> store_device(self, device, physical_device, indices),
               created |-> <<device>>,
               indices |-> Some(indices),
               create_info |-> Some(create_info)]
     : queue_infos \in queue_create_infos(indices)}


\* create_device as a function of self, the build's OS, the answers of its
\* fallible calls and the next free handle id: env.version is the instance
\* version, env.enumerated the enumerated devices (with the surface-support
\* answers of the selection pass), env.second the surface-support answers of
\* the second resolution of the selected device, env.create the native device
\* creation.  The value is the set of outcomes, one per iteration order of
\* the HashSet.
create_device(self, macos, env, id) ==
    LET fail(r) == {[ret |-> r, self |-> self, created |-> <<>>,
                     indices |-> None, create_info |-> None]}
    IN
    IF ~self.surface.some THEN fail(Err(MSG_NO_SURFACE))
    ELSE IF ~env.version.ok THEN fail(Err(VkError(env.version.err)))
    ELSE
    LET instance_version == opt_unwrap_or(env.version.val, API_VERSION_1_0)
        picked == pick_physical_device(env.enumerated).ret
    IN
    IF ~picked.ok THEN fail(picked)
    ELSE
    LET physical_device == picked.val
        resolved == QueueFamilyIndices_get(
                        [properties |-> env.enumerated.val[physical_device + 1].properties,
                         support |-> env.second])
    IN
    \* .unwrap() of the second resolution
    IF ~resolved.ok THEN fail(Panic(resolved.err))
    ELSE
    LET indices == resolved.val
        device == Handle("device", id)
    IN
    {LET create_info == [queue_create_infos |-> queue_infos,
                         enabled_extension_names |->
                             device_extensions(macos, instance_version)]
     IN  IF ~env.create.ok
         THEN [ret |-> Err(VkError(env.create.err)), self |-> self,
               created |-> <<>>, indices |-> Some(indices),
               create_info |-> Some(create_info)]
         ELSE [ret |-> Ok("unit"),
               self |-> store_device(self, device, physical_device, indices),
               created |-> <<device>>,
               indices |-> Some(indices),
               create_info |-> Some(create_info)]
     : queue_infos \in queue_create_infos(indices)}

\* The environments a create_device call can meet on the hosts of the model:
\* no adapter, one adapter of every kind within MaxDeviceFamilies, one
\* adapter whose graphics and present families differ, and an unsuitable
\* adapter followed by a suitable one.
GraphicsOnly == [properties |-> <<{"GRAPHICS", "COMPUTE"}>>, support |-> <<Ok(FALSE)>>]
Both == [properties |-> <<{"GRAPHICS", "COMPUTE"}>>, support |-> <<Ok(TRUE)>>]
Split == [properties |-> <<{"GRAPHICS", "COMPUTE"}, {"COMPUTE"}>>,
          support |-> <<Ok(FALSE), Ok(TRUE)>>]

HostEnumerations ==
    {Err("ERROR_INITIALIZATION_FAILED"), Ok(<<>>), Ok(<<Split>>), Ok(<<GraphicsOnly, Both>>)}
    \cup {Ok(<<d>>) : d \in DevicesUpTo(MaxDeviceFamilies)}

\* The surface-support answers the second resolution (line 113) can get for
\* the device the selection pass picked.  Whether a family supports the
\* surface does not change between the two passes; a native error can hit
\* any single query.
SecondAnswers(enumerated) ==
    LET picked == pick_physical_device(enumerated).ret
    IN  IF picked.ok
        THEN LET first == enumerated.val[picked.val + 1].support
             IN  {s \in [1..Len(first) -> SupportResults] :
                     \A i \in 1..Len(first) :
                         first[i].ok /\ s[i].ok => s[i] = first[i]}
        ELSE {<<>>}

DeviceEnvs ==
    UNION {[version : InstanceVersionResults,
            enumerated : {e},
            second : SecondAnswers(e),
            create : {Err("ERROR_FEATURE_NOT_PRESENT"), Ok("device")}] :
           e \in HostEnumerations}

\* ================================================================== state
VARIABLES
    VALIDATION_ENABLED,   \* cfg!(debug_assertions) of the build
    target_os_macos,      \* cfg!(target_os = "macos") of the build
    vulkan,               \* the Vulkan struct: None until new() returned Ok
    trace,                \* native create / destroy calls made so far
    result,               \* the last operation and what it returned
    calls,                \* operations made so far
    pc,                   \* position of the driving program
    exiting,              \* elwt.exiting() of the testbed's event loop
    events,               \* events the event loop has delivered
    args,                 \* input of the function under study
    ret                   \* its value, None until it is applied

vars == <<VALIDATION_ENABLED, target_os_macos, vulkan, trace, result, calls,
          pc, exiting, events, args, ret>>

build == <<VALIDATION_ENABLED, target_os_macos>>
study == <<args, ret>>
loop == <<exiting, events>>

\* result: the operation, its return value, the handles a destroy() released
\* in order, and the indices and the vk::DeviceCreateInfo a create_device built.
NoResult == [op |-> "none", ret |-> Ok("unit"), destroyed |-> <<>>,
             indices |-> None, create_info |-> None]

RECURSIVE CreatedCount(_)
CreatedCount(t) ==
    IF t = <<>> THEN 0
    ELSE (IF t[1].op = "create" THEN 1 ELSE 0) + CreatedCount(Tail(t))

\* The id the next native create call hands out.
NextId == CreatedCount(trace) + 1

Events(op, hs) == [i \in 1..Len(hs) |-> [op |-> op, handle |-> hs[i]]]

\* ------------------------------------------------- the operations as steps
\* let mut vulkan = Vulkan::new(..)
DoNew(env) ==
    LET r == new(VALIDATION_ENABLED, target_os_macos, env, NextId)
    IN  /\ vulkan' = IF r.ret.ok THEN Some(r.ret.val) ELSE None
        /\ trace' = trace \o Events("create", r.created)
        /\ result' = [NoResult EXCEPT !.op = "new",
                        !.ret = IF r.ret.ok THEN Ok("unit") ELSE r.ret]

\* vulkan.create_surface(..)
DoCreateSurface(created) ==
    LET r == create_surface(vulkan.val, created, NextId)
    IN  /\ vulkan' = Some(r.self)
        /\ trace' = trace \o Events("create", r.created)
        /\ result' = [NoResult EXCEPT !.op = "create_surface", !.ret = r.ret]

\* vulkan.create_device()
DoCreateDevice(env) ==
    \E r \in create_device(vulkan.val, target_os_macos, env, NextId) :
        /\ vulkan' = Some(r.self)
        /\ trace' = trace \o Events("create", r.created)
        /\ result' = [NoResult EXCEPT !.op = "create_device", !.ret = r.ret,
                        !.indices = r.indices, !.create_info = r.create_info]

\* vulkan.destroy()
DoDestroy ==
    LET hs == destroy(vulkan.val)
    IN  /\ vulkan' = vulkan
        /\ trace' = trace \o Events("destroy", hs)
        /\ result' = [NoResult EXCEPT !.op = "destroy", !.destroyed = hs]

SurfaceAnswers == {Err("ERROR_NATIVE_WINDOW_IN_USE_KHR"), Ok("surface")}

\* ============================================ a client of the Backend API
\* Any program that constructs one Vulkan and then calls its methods in any
\* order, MaxCalls times at most; a panic ends it.
InitClient ==
    /\ VALIDATION_ENABLED \in BOOLEAN
    /\ target_os_macos \in BOOLEAN
    /\ vulkan = None
    /\ trace = <<>>
    /\ result = NoResult
    /\ calls = 0
    /\ pc = "client"
    /\ exiting = FALSE
    /\ events = 0
    /\ args = None
    /\ ret = None

After(r) == IF IsPanic(r) THEN "panicked" ELSE "client"

New ==
    /\ pc = "client" /\ calls = 0
    /\ \E env \in InstanceEnvs : DoNew(env)
    /\ calls' = 1
    /\ pc' = After(result'.ret)
    /\ UNCHANGED <<build, loop, study>>

CreateSurface ==
    /\ pc = "client" /\ vulkan.some /\ calls <= MaxCalls
    /\ \E created \in SurfaceAnswers : DoCreateSurface(created)
    /\ calls' = calls + 1
    /\ UNCHANGED <<build, pc, loop, study>>

CreateDevice ==
    /\ pc = "client" /\ vulkan.some /\ calls <= MaxCalls
    /\ \E env \in DeviceEnvs : DoCreateDevice(env)
    /\ calls' = calls + 1
    /\ pc' = After(result'.ret)
    /\ UNCHANGED <<build, loop, study>>

Destroy ==
    /\ pc = "client" /\ vulkan.some /\ calls <= MaxCalls
    /\ DoDestroy
    /\ calls' = calls + 1
    /\ UNCHANGED <<build, pc, loop, study>>

Next == New \/ CreateSurface \/ CreateDevice \/ Destroy

Spec == InitClient /\ [][Next]_vars

\* The native handles an operation on self passes to the driver: create_surface
\* the instance (line 93), create_device the instance and the surface (lines
\* 110-113, 149; none when it returns at line 104), destroy every handle it
\* releases (lines 58-80).
uses(op, self) ==
    CASE op = "create_surface" -> {self.instance}
      [] op = "create_device" ->
            IF self.surface.some THEN {self.instance, self.surface.val} ELSE {}
      [] op = "destroy" -> {destroy(self)[i] : i \in 1..Len(destroy(self))}
      [] OTHER -> {}

\* ================================================= the testbed's main()
InitMain ==
    /\ VALIDATION_ENABLED \in BOOLEAN
    /\ target_os_macos \in BOOLEAN
    /\ vulkan = None
    /\ trace = <<>>
    /\ result = NoResult
    /\ calls = 0
    /\ pc = "main_new"
    /\ exiting = FALSE
    /\ events = 0
    /\ args = None
    /\ ret = None

\* Where main() goes after a `?`: on, or out with the error (or the panic).
Then(r, next) == IF r.ok THEN next ELSE IF IsPanic(r) THEN "main_panicked" ELSE "main_err"

\* line 21
MainNew ==
    /\ pc = "main_new"
    /\ \E env \in InstanceEnvs : DoNew(env)
    /\ pc' = Then(result'.ret, "main_create_surface")
    /\ calls' = calls + 1
    /\ UNCHANGED <<build, loop, study>>

\* line 22
MainCreateSurface ==
    /\ pc = "main_create_surface"
    /\ \E created \in SurfaceAnswers : DoCreateSurface(created)
    /\ pc' = Then(result'.ret, "main_create_device")
    /\ calls' = calls + 1
    /\ UNCHANGED <<build, loop, study>>

\* line 23
MainCreateDevice ==
    /\ pc = "main_create_device"
    /\ \E env \in DeviceEnvs : DoCreateDevice(env)
    /\ pc' = Then(result'.ret, "main_run")
    /\ calls' = calls + 1
    /\ UNCHANGED <<build, loop, study>>

WindowEvents == {"AboutToWait", "RedrawRequested", "CloseRequested", "Resized"}

\* lines 25-36: the closure, called once per delivered event.  The loop goes
\* on delivering the events of the current batch after elwt.exit().
MainEvent ==
    /\ pc = "main_run" /\ events < MaxEvents
    /\ \E event \in WindowEvents :
          IF event = "CloseRequested"
          THEN /\ exiting' = TRUE
               /\ DoDestroy
               /\ calls' = calls + 1
          ELSE UNCHANGED <<exiting, vulkan, trace, result, calls>>
    /\ events' = events + 1
    /\ UNCHANGED <<build, pc, study>>

\* event_loop.run returns once exit was requested; main returns Ok(()).
MainLoopExit ==
    /\ pc = "main_run" /\ exiting
    /\ pc' = "main_ok"
    /\ UNCHANGED <<build, vulkan, trace, result, calls, loop, study>>

NextMain ==
    MainNew \/ MainCreateSurface \/ MainCreateDevice \/ MainEvent \/ MainLoopExit

SpecMain == InitMain /\ [][NextMain]_vars

\* ============================== QueueFamilyIndices::get and the descriptors
InitGet ==
    /\ VALIDATION_ENABLED = FALSE
    /\ target_os_macos = FALSE
    /\ vulkan = None
    /\ trace = <<>>
    /\ result = NoResult
    /\ calls = 0
    /\ pc = "get"
    /\ exiting = FALSE
    /\ events = 0
    /\ args \in {Some([dev |-> d]) : d \in DevicesUpTo(MaxFamilies)}
    /\ ret = None

\* lines 112-113 and 338: resolve the indices of the device.
GetIndices ==
    /\ pc = "get" /\ ~ret.some
    /\ ret' = Some(QueueFamilyIndices_get(args.val.dev))
    /\ UNCHANGED <<build, vulkan, trace, result, calls, pc, loop, args>>

NextGet == GetIndices

SpecGet == InitGet /\ [][NextGet]_vars

\* ==================================================== pick_physical_device
PickEnumerations ==
    {Err("ERROR_INITIALIZATION_FAILED")}
    \cup {Ok(l) : l \in SeqsUpTo(DevicesUpTo(MaxDeviceFamilies), MaxDevices)}

InitPick ==
    /\ VALIDATION_ENABLED = FALSE
    /\ target_os_macos = FALSE
    /\ vulkan = None
    /\ trace = <<>>
    /\ result = NoResult
    /\ calls = 0
    /\ pc = "pick"
    /\ exiting = FALSE
    /\ events = 0
    /\ args \in {Some([enumerated |-> e]) : e \in PickEnumerations}
    /\ ret = None

Pick ==
    /\ pc = "pick" /\ ~ret.some
    /\ ret' = Some(pick_physical_device(args.val.enumerated))
    /\ UNCHANGED <<build, vulkan, trace, result, calls, pc, loop, args>>

NextPick == Pick

SpecPick == InitPick /\ [][NextPick]_vars

\* ========================================================= create_instance
InitInstance ==
    /\ VALIDATION_ENABLED \in BOOLEAN
    /\ target_os_macos \in BOOLEAN
    /\ vulkan = None
    /\ trace = <<>>
    /\ result = NoResult
    /\ calls = 0
    /\ pc = "instance"
    /\ exiting = FALSE
    /\ events = 0
    /\ args \in {Some([env |-> e]) : e \in InstanceEnvs}
    /\ ret = None

CreateInstance ==
    /\ pc = "instance" /\ ~ret.some
    /\ LET r == create_instance(VALIDATION_ENABLED, target_os_macos, args.val.env, NextId)
       IN  /\ ret' = Some(r)
           /\ trace' = trace \o Events("create", r.created)
    /\ UNCHANGED <<build, vulkan, result, calls, pc, loop, args>>

NextInstance == CreateInstance

SpecInstance == InitInstance /\ [][NextInstance]_vars

\* ======================================= the two portability call sites
\* The instance versions a loader can report: None from a 1.0 loader, else
\* major.minor.patch with the patch around the threshold's.
VersionAnswers ==
    {None} \cup {Some([major |-> ma, minor |-> mi, patch |-> pa]) :
                    ma \in 1..MaxMajor, mi \in 0..MaxMinor, pa \in {0, 215, 216, 217}}

\* .unwrap_or(vk::API_VERSION_1_0) of lines 108 and 172.
instance_version_of(answer) ==
    IF answer.some
    THEN make_api_version(0, answer.val.major, answer.val.minor, answer.val.patch)
    ELSE API_VERSION_1_0

InitPortability ==
    /\ VALIDATION_ENABLED \in BOOLEAN
    /\ target_os_macos \in BOOLEAN
    /\ vulkan = None
    /\ trace = <<>>
    /\ result = NoResult
    /\ calls = 0
    /\ pc = "portability"
    /\ exiting = FALSE
    /\ events = 0
    /\ args \in {Some([version |-> v]) : v \in VersionAnswers}
    /\ ret = [instance |-> None, device |-> None]

\* Lines 184-199: what create_instance asks for on this build and loader.
PortabilityInstance ==
    /\ pc = "portability" /\ ~ret.instance.some
    /\ LET v == instance_version_of(args.val.version)
       IN  ret' = [ret EXCEPT !.instance = Some(
                     [extensions |-> instance_extensions(VALIDATION_ENABLED, target_os_macos, v,
                                         <<"VK_KHR_surface", "VK_KHR_xcb_surface">>),
                      flags |-> instance_flags(target_os_macos, v)])]
    /\ UNCHANGED <<build, vulkan, trace, result, calls, pc, loop, args>>

\* Lines 130-135: what create_device asks for on the same build and loader.
PortabilityDevice ==
    /\ pc = "portability" /\ ret.instance.some /\ ~ret.device.some
    /\ LET v == instance_version_of(args.val.version)
       IN  ret' = [ret EXCEPT !.device = Some(
                     [extensions |-> device_extensions(target_os_macos, v)])]
    /\ UNCHANGED <<build, vulkan, trace, result, calls, pc, loop, args>>

NextPortability == PortabilityInstance \/ PortabilityDevice

SpecPortability == InitPortability /\ [][NextPortability]_vars

\* ========================================================== debug_callback
\* vk::DebugUtilsMessageSeverityFlagsEXT: one bit per severity.
SEVERITY_VERBOSE == 1
SEVERITY_INFO == 16
SEVERITY_WARNING == 256
SEVERITY_ERROR == 4096
\* vk::FALSE
VK_FALSE == 0

\* Every value of the severity mask: any combination of the four bits.
Severities ==
    {v + i + w + e : v \in {0, SEVERITY_VERBOSE}, i \in {0, SEVERITY_INFO},
                     w \in {0, SEVERITY_WARNING}, e \in {0, SEVERITY_ERROR}}
\* vk::DebugUtilsMessageTypeFlagsEXT, as enabled at lines 235-237.
MessageTypes == SUBSET {"GENERAL", "VALIDATION", "PERFORMANCE"}
Messages == {"vkCreateDevice: invalid pCreateInfo", "loader: layer found"}

\* Variant: strict comparisons, so a severity equal to a threshold falls into
\* the bucket below it.
debug_callback_strict(severity, type_, message) ==
    LET level == IF severity > SEVERITY_ERROR THEN "error"
                 ELSE IF severity > SEVERITY_WARNING THEN "warn"
                 ELSE IF severity > SEVERITY_INFO THEN "debug"
                 ELSE "trace"
    IN  [logged |-> <<[level |-> level, type_ |-> type_, message |-> message]>>,
         ret |-> VK_FALSE]

\* Lines 342-362: the flags compare as their u32 values; `logged` lists the
\* records handed to the log macros.
debug_callback(severity, type_, message) ==
    LET level == IF severity >= SEVERITY_ERROR THEN "error"
                 ELSE IF severity >= SEVERITY_WARNING THEN "warn"
                 ELSE IF severity >= SEVERITY_INFO THEN "debug"
                 ELSE "trace"
    IN  [logged |-> <<[level |-> level, type_ |-> type_, message |-> message]>>,
         ret |-> VK_FALSE]

InitCallback ==
    /\ VALIDATION_ENABLED = TRUE
    /\ target_os_macos = FALSE
    /\ vulkan = None
    /\ trace = <<>>
    /\ result = NoResult
    /\ calls = 0
    /\ pc = "callback"
    /\ exiting = FALSE
    /\ events = 0
    /\ args \in {Some([severity |-> v, type_ |-> t, message |-> m]) :
                    v \in Severities, t \in MessageTypes, m \in Messages}
    /\ ret = None

\* The driver calls the messenger's callback with one message.
DebugCallback ==
    /\ pc = "callback" /\ ~ret.some
    /\ ret' = Some(debug_callback(args.val.severity, args.val.type_, args.val.message))
    /\ UNCHANGED <<build, vulkan, trace, result, calls, pc, loop, args>>

NextCallback == DebugCallback

SpecCallback == InitCallback /\ [][NextCallback]_vars

\* ================================================================== claims
Min(S) == CHOOSE x \in S : \A y \in S : x <= y
Kinds(d) == {d[i].kind : i \in 1..Len(d)}
\* Position in trace of the native call that created h.
CreatedAt(h) == CHOOSE i \in 1..Len(trace) : trace[i] = Created(h)

RECURSIVE DestroyCallsIn(_)
DestroyCallsIn(t) ==
    IF t = <<>> THEN 0
    ELSE (IF t[1].op = "destroy" /\ t[1].handle.kind = "instance" THEN 1 ELSE 0)
         + DestroyCallsIn(Tail(t))
\* Every destroy() call destroys the instance once: the calls made so far.
DestroyCalls == DestroyCallsIn(trace)

\* C1: whatever the context holds when destroy() is called (messenger, surface
\* and device each present or absent), destroy() destroys exactly the handles
\* that are Some plus the instance, the messenger and the device before the
\* surface, the surface before the instance, and the instance last.
C1_DestroyOrder ==
    result.op = "destroy" =>
        LET d == result.destroyed
            self == vulkan.val
            Has(o) == o.some /\ \E i \in 1..Len(d) : d[i] = o.val
        IN  /\ Len(d) >= 1
            /\ d[Len(d)] = self.instance
            /\ \A i \in 1..(Len(d) - 1) : d[i].kind # "instance"
            /\ \A i, j \in 1..Len(d) : i # j => d[i] # d[j]
            /\ self.debug_utils_messenger.some <=> "debug_utils_messenger" \in Kinds(d)
            /\ self.device.some <=> "device" \in Kinds(d)
            /\ self.surface.some <=> "surface" \in Kinds(d)
            /\ self.debug_utils_messenger.some => Has(self.debug_utils_messenger)
            /\ self.device.some => Has(self.device)
            /\ self.surface.some => Has(self.surface)
            /\ \A i, j \in 1..Len(d) :
                  /\ d[i].kind \in {"debug_utils_messenger", "device"}
                  /\ d[j].kind = "surface"
                  => i < j
            /\ \A i, j \in 1..Len(d) :
                  d[i].kind = "surface" /\ d[j].kind = "instance" => i < j

\* A destroy() of a context that holds all four handles has run.
C1_Witness ==
    /\ result.op = "destroy"
    /\ Kinds(result.destroyed) = {"debug_utils_messenger", "device", "surface", "instance"}

\* C2: pick_physical_device is first-fit: over every enumerated list it returns
\* the lowest position whose suitability check succeeds, it checks exactly the
\* devices up to the returned one (all of them when none passes), skipping each
\* failed one with a warning, and it fails, with the no-suitable-device error,
\* exactly when no enumerated device passes.
C2_FirstFit ==
    (pc = "pick" /\ ret.some /\ args.val.enumerated.ok) =>
        LET devs == args.val.enumerated.val
            r == ret.val
            passing == {i \in 1..Len(devs) : check_physical_device(devs[i]).ok}
            checked == [k \in 1..Len(r.log) |-> r.log[k].device]
        IN  /\ r.ret.ok <=> passing # {}
            /\ r.ret.ok => r.ret.val = Min(passing) - 1
            /\ ~r.ret.ok => r.ret = Err(MSG_NO_SUITABLE_DEVICE)
            /\ Len(checked) = (IF r.ret.ok THEN r.ret.val + 1 ELSE Len(devs))
            /\ \A k \in 1..Len(checked) : checked[k] = k - 1
            /\ \A k \in 1..Len(r.log) :
                  r.log[k].level = (IF k \in passing THEN "info" ELSE "warn")

\* An unsuitable device was skipped and the suitable one after it returned.
C2_Witness ==
    /\ pc = "pick" /\ ret.some /\ args.val.enumerated.ok
    /\ Len(args.val.enumerated.val) = 2
    /\ ~check_physical_device(args.val.enumerated.val[1]).ok
    /\ ret.val.ret = Ok(1)

\* C3: QueueFamilyIndices::get resolves graphics to the lowest graphics-capable
\* family and present to the lowest family whose surface-support query answered
\* true (a failed query counting as not supported), returns Ok iff both exist
\* and otherwise fails with the missing-queue-families error.
C3_LowestIndices ==
    (pc = "get" /\ ret.some) =>
        LET dev == args.val.dev
            n == Len(dev.properties)
            G == {i \in 1..n : "GRAPHICS" \in dev.properties[i]}
            P == {i \in 1..n : dev.support[i] = Ok(TRUE)}
            r == ret.val
        IN  /\ r.ok <=> (G # {} /\ P # {})
            /\ r.ok => r.val = [graphics |-> Min(G) - 1, present |-> Min(P) - 1]
            /\ ~r.ok => r = Err(MSG_MISSING_QUEUE_FAMILIES)

\* Resolved to one shared family, behind a family whose query failed and with
\* a later family that supports the surface too.
C3_Witness ==
    /\ pc = "get" /\ ret.some /\ ret.val.ok
    /\ ret.val.val.graphics = ret.val.val.present
    /\ \E i, j \in 1..Len(args.val.dev.support) :
          /\ i - 1 < ret.val.val.present
          /\ ~args.val.dev.support[i].ok
          /\ j - 1 > ret.val.val.present
          /\ args.val.dev.support[j] = Ok(TRUE)

\* C4: the queue-creation descriptors create_device hands to device creation
\* are one when the graphics and present indices are equal and two when they
\* differ, one per distinct index, each requesting exactly one queue.
C4_QueueInfos ==
    (result.op = "create_device" /\ result.create_info.some) =>
        LET infos == result.create_info.val.queue_create_infos
            indices == result.indices.val
        IN  /\ Len(infos) = (IF indices.graphics = indices.present THEN 1 ELSE 2)
            /\ \A i \in 1..Len(infos) : infos[i].queue_count = 1
            /\ \A i, j \in 1..Len(infos) :
                  i # j => infos[i].queue_family_index # infos[j].queue_family_index
            /\ {infos[i].queue_family_index : i \in 1..Len(infos)}
                  = {indices.graphics, indices.present}

\* A device was created from differing graphics and present families.
C4_Witness ==
    /\ result.op = "create_device" /\ result.ret.ok
    /\ result.indices.val.graphics # result.indices.val.present
    /\ Len(result.create_info.val.queue_create_infos) = 2

\* C5: in a build with diagnostics, for every available-layer list L that
\* create_instance gets to read, it goes on to the native instance creation
\* iff VK_LAYER_KHRONOS_validation is in L; when it is absent the call fails
\* with the validation-unsupported error, builds no creation parameters, makes
\* no native creation call and leaves no instance.
C5_Readable(env) ==
    /\ env.version.ok /\ env.required_extensions.ok /\ env.layers.ok
    /\ \A i \in 1..Len(env.layers.val) : env.layers.val[i].ok

C5_LayerNegotiation ==
    (pc = "instance" /\ ret.some /\ VALIDATION_ENABLED /\ C5_Readable(args.val.env)) =>
        LET env == args.val.env
            L == {env.layers.val[i].val : i \in 1..Len(env.layers.val)}
            r == ret.val
        IN  /\ r.instance_info.some <=> VALIDATION_LAYER_NAME \in L
            /\ r.reached # "negotiation" <=> VALIDATION_LAYER_NAME \in L
            /\ VALIDATION_LAYER_NAME \notin L =>
                  /\ r.ret = Err(MSG_VALIDATION_UNSUPPORTED)
                  /\ r.created = <<>>
                  /\ trace = <<>>

\* The layer is missing from a non-empty list while the native creation would
\* have succeeded.
C5_Witness ==
    /\ pc = "instance" /\ ret.some /\ VALIDATION_ENABLED /\ C5_Readable(args.val.env)
    /\ args.val.env.layers.val # <<>>
    /\ \A i \in 1..Len(args.val.env.layers.val) :
          args.val.env.layers.val[i].val # VALIDATION_LAYER_NAME
    /\ args.val.env.create.ok /\ args.val.env.messenger.ok

C7_SecondResolutionSucceeds ==
    ~(result.op = "create_device" /\ IsPanic(result.ret))

\* C8 as stated: whenever main() ends after Vulkan::new succeeded, destroy()
\* has been called exactly once, and it is never called more than once.
C8_DestroyExactlyOnce ==
    /\ DestroyCalls <= 1
    /\ (pc \in {"main_ok", "main_err", "main_panicked"} /\ vulkan.some)
          => DestroyCalls = 1

\* The handles a destroy() released were created in the order instance,
\* debug messenger, surface, device.
C9_CreatedInBootstrapOrder(d) ==
    LET Rank(k) == CASE k = "instance" -> 1
                     [] k = "debug_utils_messenger" -> 2
                     [] k = "surface" -> 3
                     [] k = "device" -> 4
    IN  \A i, j \in 1..Len(d) :
            Rank(d[i].kind) < Rank(d[j].kind) => CreatedAt(d[i]) < CreatedAt(d[j])

\* C9 as stated: with that creation order, destroy() releases every handle
\* only after every handle created later than it.
C9_StrictReverse ==
    (result.op = "destroy" /\ C9_CreatedInBootstrapOrder(result.destroyed)) =>
        LET d == result.destroyed
        IN  \A i, j \in 1..Len(d) :
                CreatedAt(d[i]) < CreatedAt(d[j]) => j < i

\* C9 as amended: with that creation order, destroy() releases the device, the
\* surface and the instance in the reverse of their creation order, and the
\* debug messenger, although created second, first of all.
C9_ReverseButMessengerFirst ==
    (result.op = "destroy" /\ C9_CreatedInBootstrapOrder(result.destroyed)) =>
        LET d == result.destroyed
        IN  /\ \A i, j \in 1..Len(d) :
                  /\ d[i].kind # "debug_utils_messenger"
                  /\ d[j].kind # "debug_utils_messenger"
                  /\ CreatedAt(d[i]) < CreatedAt(d[j])
                  => j < i
            /\ \A i \in 1..Len(d) : d[i].kind = "debug_utils_messenger" => i = 1

\* A destroy() released a messenger, a surface and a device created in the
\* bootstrap order.
C9_Witness ==
    /\ result.op = "destroy"
    /\ C9_CreatedInBootstrapOrder(result.destroyed)
    /\ {"debug_utils_messenger", "surface", "device"} \subseteq Kinds(result.destroyed)
    /\ Len(result.destroyed) = 4

\* C10: once Vulkan::new has succeeded the debug messenger is present iff
\* VALIDATION_ENABLED, and no later operation changes it.
C10_MessengerIffValidation ==
    [][/\ vulkan'.some =>
              (vulkan'.val.debug_utils_messenger.some <=> VALIDATION_ENABLED')
       /\ vulkan.some =>
              /\ vulkan'.some
              /\ vulkan'.val.debug_utils_messenger = vulkan.val.debug_utils_messenger]_vars

\* A diagnostics build holds its messenger after create_surface and
\* create_device have both succeeded.
C10_Witness ==
    /\ VALIDATION_ENABLED /\ vulkan.some
    /\ vulkan.val.debug_utils_messenger.some
    /\ vulkan.val.surface.some /\ vulkan.val.device.some
    /\ DestroyCalls = 0

\* C11: debug_callback hands every message to exactly one log level, chosen
\* by comparing the severity value with the thresholds from the top: error
\* from ERROR up, else warn from WARNING up, else debug from INFO up, else
\* trace; a severity equal to a threshold lands in that threshold's level; the
\* callback returns FALSE.
C11_SeverityRouting ==
    (pc = "callback" /\ ret.some) =>
        LET v == args.val.severity
            expected == CASE v >= 4096 -> "error"
                          [] v < 4096 /\ v >= 256 -> "warn"
                          [] v < 256 /\ v >= 16 -> "debug"
                          [] v < 16 -> "trace"
        IN  /\ Len(ret.val.logged) = 1
            /\ ret.val.logged[1] = [level |-> expected, type_ |-> args.val.type_,
                                    message |-> args.val.message]
            /\ ret.val.ret = 0

\* A message whose severity is exactly WARNING was logged.
C11_Witness ==
    /\ pc = "callback" /\ ret.some
    /\ args.val.severity = 256
    /\ ret.val.logged[1].level = "warn"

\* A step that is one create_device call.
C12_CreateDeviceStep == calls' = calls + 1 /\ result'.op = "create_device"

\* C12: a create_device call that fails for want of a surface, of a suitable
\* physical device or of the native device creation returns an error value,
\* creates no native object and leaves every field of self as it was; called
\* before any surface is bound it always fails so.
C12_ErrorLeavesSelf ==
    [][C12_CreateDeviceStep =>
          /\ IsErr(result'.ret) => (vulkan' = vulkan /\ trace' = trace)
          /\ result'.ret.ok => vulkan.val.surface.some
          /\ ~vulkan.val.surface.some =>
                /\ result'.ret = Err(MSG_NO_SURFACE)
                /\ vulkan' = vulkan /\ trace' = trace
          /\ (~result'.ret.ok /\ result'.ret.err \in
                  {MSG_NO_SURFACE, MSG_NO_SUITABLE_DEVICE, "ERROR_FEATURE_NOT_PRESENT"})
                => IsErr(result'.ret)]_vars

\* The native device creation was rejected on a context that already held a
\* device from an earlier call.
C12_Witness ==
    /\ result.op = "create_device"
    /\ result.ret = Err("ERROR_FEATURE_NOT_PRESENT")
    /\ vulkan.val.device.some

\* Handles the native create calls of a trace made, and those its native
\* destroy calls released.
HandlesOf(t, op) == {t[i].handle : i \in {k \in 1..Len(t) : t[k].op = op}}

\* C13 as stated: once destroy() has been called, after any create_surface
\* and create_device calls, every surface and every device that was created
\* has been destroyed.
C13_NoLeakAfterDestroy ==
    (result.op = "destroy" /\ DestroyCalls = 1) =>
        \A h \in HandlesOf(trace, "create") :
            h.kind \in {"surface", "device"} => h \in HandlesOf(trace, "destroy")

\* C14 as stated: no call on a context passes the driver a handle that was
\* already destroyed, and no handle is destroyed twice.
C14_NoDoubleDestroyNoUseAfterDestroy ==
    [][(calls' = calls + 1 /\ vulkan.some) =>
          /\ uses(result'.op, vulkan.val) \cap HandlesOf(trace, "destroy") = {}
          /\ \A i, j \in 1..Len(trace') :
                (i # j /\ trace'[i].op = "destroy" /\ trace'[j].op = "destroy")
                => trace'[i].handle # trace'[j].handle]_vars

\* C15 as stated: when Vulkan::new has returned an error, no native instance
\* is left created and not destroyed.
C15_NoOrphanInstance ==
    (result.op = "new" /\ ~result.ret.ok) =>
        \A h \in HandlesOf(trace, "create") :
            h.kind = "instance" => h \in HandlesOf(trace, "destroy")

\* C16: in every state of a context, device is Some iff physical_device,
\* graphics_queue and present_queue are all Some, and device is Some only if
\* surface is Some.
C16_FieldsCoherent ==
    vulkan.some =>
        LET v == vulkan.val
        IN  /\ v.device.some <=>
                  (v.physical_device.some /\ v.graphics_queue.some /\ v.present_queue.some)
            /\ v.device.some => v.surface.some

\* A context that holds a device has gone through a failed create_device.
C16_Witness ==
    /\ vulkan.some /\ vulkan.val.device.some
    /\ result.op = "create_device" /\ IsErr(result.ret)

\* Elements of a sequence.
Range(q) == {q[i] : i \in 1..Len(q)}

\* C17: for every OS family and instance version, create_device appends the
\* portability-subset device extension iff create_instance appended the two
\* portability instance extensions and set the portability-enumeration flag,
\* and both do so iff the OS is macOS and the version is at least 1.3.216.
C17_SameCondition ==
    (pc = "portability" /\ ret.instance.some /\ ret.device.some) =>
        LET a == args.val.version
            at_least == /\ a.some
                        /\ \/ a.val.major > 1
                           \/ a.val.major = 1 /\ a.val.minor > 3
                           \/ a.val.major = 1 /\ a.val.minor = 3 /\ a.val.patch >= 216
            wanted == target_os_macos /\ at_least
            inst == ret.instance.val
            dev == ret.device.val
            both == {"VK_KHR_get_physical_device_properties2",
                     "VK_KHR_portability_enumeration"}
        IN  /\ "VK_KHR_portability_subset" \in Range(dev.extensions) <=> wanted
            /\ both \subseteq Range(inst.extensions) <=> wanted
            /\ both \cap Range(inst.extensions) # {} <=> wanted
            /\ "ENUMERATE_PORTABILITY_KHR" \in inst.flags <=> wanted

\* A macOS build on a loader reporting exactly 1.3.216 asked for the
\* portability extensions at both sites.
C17_Witness ==
    /\ pc = "portability" /\ ret.instance.some /\ ret.device.some
    /\ target_os_macos
    /\ args.val.version = Some([major |-> 1, minor |-> 3, patch |-> 216])
    /\ ret.device.val.extensions = <<"VK_KHR_portability_subset">>

====
